---------------------------- MODULE Spec2Model ----------------------------
(***************************************************************************)
(* A model of lyft_dataset_sdk/utils/data_classes.py: the point-cloud      *)
(* abstraction (PointCloud, LidarPointCloud, RadarPointCloud), its         *)
(* geometric mutators, the structured radar decoder, the multi-sweep       *)
(* aggregator and the oriented Box.                                        *)
(*                                                                         *)
(* A point matrix of shape (d, n) is a record [nrows |-> d, cols |-> s]    *)
(* where s is the sequence of its n columns and a column is a function    *)
(* from the row indices 0..d-1 (the source's indices) to values.  The row  *)
(* count is kept explicitly because a (d, 0) matrix has no column to read  *)
(* it from.  Coordinates are integers, timestamps integer microseconds.    *)
(*                                                                         *)
(* pc tells which entry point is running: a session on one point cloud     *)
(* ("new", "object"), a call of from_file_multisweep ("multisweep",        *)
(* "loop", "returned"), a call of RadarPointCloud.from_file ("from_file",  *)
(* "decode", "filter", "radar_returned") or a session on one Box           *)
(* ("box_new", "box"); "error" is a call ended by an exception.            *)
(***************************************************************************)
EXTENDS Integers, Sequences, FiniteSets, TLC

VARIABLES
    pc,         \* position of the running call
    cls,        \* class the call is made on: "LidarPointCloud" / "RadarPointCloud" / "Box"
    points,     \* self.points of the point cloud under mutation, or None
    err,        \* the exception that ended the call, or "none"
    nops,       \* number of mutator calls made on the object so far
    lastOp,     \* name of the last operation applied to the object
    lastArg,    \* its argument
    before,     \* self.points before that operation (the constructor's input for __init__)
    base,       \* self.points after the last call that was not translate, rotate or transform
    call,       \* the arguments of a from_file_multisweep call (or NoCall)
    current_sd_rec, \* from_file_multisweep: token of the frame the loop is at
    sweep,      \* from_file_multisweep: the loop counter `_` of range(num_sweeps)
    all_times,  \* from_file_multisweep: the time-offset vector (microseconds)
    loaded,     \* from_file_multisweep: tokens of the frames handed to from_file, in call order
    file,       \* RadarPointCloud.from_file: the file read, [header, data_binary] (or NoFile)
    args,       \* RadarPointCloud.from_file: the three allow-set arguments
    offset,     \* RadarPointCloud.from_file: byte offset of the decode loop
    point_list, \* RadarPointCloud.from_file: the list `points` of decoded points
    matrix,     \* RadarPointCloud.from_file: `points` once converted to a matrix
    box,        \* the Box under mutation, or NoBox
    box_args,   \* the arguments of the Box constructor call
    box_prev,   \* the box before the last method call
    box_base,   \* the box after the last call that was not rotate_around_box_center
    box_nops,   \* number of method calls made on the box so far
    box_call    \* the last call on the box: its name and argument

opsVars == <<nops, lastOp, lastArg, before, base>>
sweepVars == <<call, current_sd_rec, sweep, all_times, loaded>>
radarVars == <<file, args, offset, point_list, matrix>>
boxVars == <<box, box_args, box_prev, box_base, box_nops, box_call>>
vars == <<pc, cls, points, err, opsVars, sweepVars, radarVars, boxVars>>

None == [nrows |-> 0 - 1, cols |-> <<>>]

----------------------------------------------------------------------------
(* Bounds of the model. *)

\* longest point matrix handed to the constructor
MaxPts == 2
\* number of mutator calls made on one object
MaxOps == 2
\* longest prev-chain of sensor frames
MaxChain == 3
\* largest num_sweeps
MaxSweeps == 4
\* largest WIDTH of a radar file
MaxWidth == 2

----------------------------------------------------------------------------
(* numpy helpers *)

Abs(x) == IF x < 0 THEN 0 - x ELSE x

Min(a, b) == IF a < b THEN a ELSE b

Matrix(d, cs) == [nrows |-> d, cols |-> cs]

\* np.zeros((d, 0))
Zeros(d) == Matrix(d, <<>>)

\* points[:, mask] for a boolean mask with one entry per column
RECURSIVE MaskSelect(_, _)
MaskSelect(cs, mask) ==
    IF cs = <<>> THEN <<>>
    ELSE (IF Head(mask) THEN <<Head(cs)>> ELSE <<>>) \o MaskSelect(Tail(cs), Tail(mask))

\* points[:, ind] for a sequence ind of 0-based column indices
IndexSelect(m, ind) == Matrix(m.nrows, [k \in 1..Len(ind) |-> m.cols[ind[k] + 1]])

\* row i of (A . v) for a matrix A given as a tuple of rows and a tuple v
Dot(A, v, i) ==
    LET n == Len(v)
        RECURSIVE Acc(_)
        Acc(j) == IF j = 0 THEN 0 ELSE Acc(j - 1) + A[i][j] * v[j]
    IN Acc(n)

----------------------------------------------------------------------------
(* class PointCloud and its two subclasses *)

Classes == {"LidarPointCloud", "RadarPointCloud"}

nbr_dims(c) == IF c = "LidarPointCloud" THEN 4 ELSE 18

nbr_points(m) == Len(m.cols)

\* remove_close with `or` for `and` in the mask: a variant C9 must tell apart
remove_close_OrMutant(m, radius) ==
    LET n == nbr_points(m)
        x_filt == [k \in 1..n |-> Abs(m.cols[k][0]) < radius]
        y_filt == [k \in 1..n |-> Abs(m.cols[k][1]) < radius]
        not_close == [k \in 1..n |-> ~(x_filt[k] \/ y_filt[k])]
    IN Matrix(m.nrows, MaskSelect(m.cols, not_close))

remove_close(m, radius) ==
    LET n == nbr_points(m)
        x_filt == [k \in 1..n |-> Abs(m.cols[k][0]) < radius]
        y_filt == [k \in 1..n |-> Abs(m.cols[k][1]) < radius]
        not_close == [k \in 1..n |-> ~(x_filt[k] /\ y_filt[k])]
    IN Matrix(m.nrows, MaskSelect(m.cols, not_close))

\* size of the sample subsample draws: int(nbr_points * ratio), for a ratio
\* num/den >= 0 whose product with nbr_points is exact in floating point
SubsampleSize(m, num, den) == (nbr_points(m) * num) \div den

subsample(m, selected_ind) == IndexSelect(m, selected_ind)

translate(m, x) ==
    Matrix(m.nrows,
           [k \in 1..nbr_points(m) |->
               [r \in DOMAIN m.cols[k] |->
                   IF r < 3 THEN m.cols[k][r] + x[r + 1] ELSE m.cols[k][r]]])

\* rotate writing every row, not rows 0-2 only: a variant C10 must tell apart
rotate_AllRowsMutant(m, rot_matrix) ==
    Matrix(m.nrows,
           [k \in 1..nbr_points(m) |->
               LET c == m.cols[k]
                   v == <<c[0], c[1], c[2]>>
               IN [r \in DOMAIN c |-> Dot(rot_matrix, v, (r % 3) + 1)]])

rotate(m, rot_matrix) ==
    Matrix(m.nrows,
           [k \in 1..nbr_points(m) |->
               LET c == m.cols[k]
                   v == <<c[0], c[1], c[2]>>
               IN [r \in DOMAIN c |->
                      IF r < 3 THEN Dot(rot_matrix, v, r + 1) ELSE c[r]]])

\* rows 0-2 as homogeneous points, the 4x4 matrix applied, rows 0-2 of the result kept
transform(m, transf_matrix) ==
    Matrix(m.nrows,
           [k \in 1..nbr_points(m) |->
               LET c == m.cols[k]
                   v == <<c[0], c[1], c[2], 1>>
               IN [r \in DOMAIN c |->
                      IF r < 3 THEN Dot(transf_matrix, v, r + 1) ELSE c[r]]])

----------------------------------------------------------------------------
(* Inputs of the mutator calls *)

\* x, y, z of the sample points: inside, on the edge of and outside the squares
\* of half-width 1 and 2, with z unrelated to x and y
SampleXYZ == {<<0, 0, 5>>, <<1, 0, 0 - 3>>, <<0, 0 - 2, 1>>}

SampleCol(d, p) == [r \in 0..(d - 1) |-> IF r < 3 THEN p[r + 1] ELSE 10 * r + p[1] + p[3]]

RowCounts == {3, 4, 5, 17, 18}

SeqsUpTo(S, n) == UNION {[1..k -> S] : k \in 0..n}

InputMatrices ==
    {Matrix(d, [k \in 1..Len(ps) |-> SampleCol(d, ps[k])]) :
        d \in RowCounts, ps \in SeqsUpTo(SampleXYZ, MaxPts)}

Radii == {1, 2}

Translations == {<<1, 0, 0>>, <<0, 0 - 2, 3>>}

\* a quarter turn about x, and a matrix that is no rotation
Rotations ==
    { << <<1, 0, 0>>, <<0, 0, 0 - 1>>, <<0, 1, 0>> >>,
      << <<2, 0, 0>>, <<0, 1, 1>>, <<0, 0, 1>> >> }

\* a rigid transform, and a matrix whose last row is not (0, 0, 0, 1)
Transforms ==
    { << <<0, 0 - 1, 0, 1>>, <<1, 0, 0, 0 - 2>>, <<0, 0, 1, 3>>, <<0, 0, 0, 1>> >>,
      << <<1, 0, 0, 0>>, <<0, 1, 0, 1>>, <<1, 0, 1, 0>>, <<1, 2, 3, 4>> >> }

\* ratios num/den handed to subsample
Ratios == {<<1, 2>>, <<1, 1>>}

----------------------------------------------------------------------------
(* from_file_multisweep: the record catalog and the transforms *)

\* The rotation of a pose is a number q of quarter turns about z, standing for the
\* quaternion (cos(q pi/4), 0, 0, sin(q pi/4)); its rotation matrix is exact.
RotationMatrix(q) ==
    CASE q = 0 -> << <<1, 0, 0>>, <<0, 1, 0>>, <<0, 0, 1>> >>
      [] q = 1 -> << <<0, 0 - 1, 0>>, <<1, 0, 0>>, <<0, 0, 1>> >>
      [] q = 2 -> << <<0 - 1, 0, 0>>, <<0, 0 - 1, 0>>, <<0, 0, 1>> >>
      [] q = 3 -> << <<0, 1, 0>>, <<0 - 1, 0, 0>>, <<0, 0, 1>> >>

Transpose3(R) ==
    << <<R[1][1], R[2][1], R[3][1]>>, <<R[1][2], R[2][2], R[3][2]>>, <<R[1][3], R[2][3], R[3][3]>> >>

\* geometry_utils.transform_matrix(translation, rotation, inverse)
transform_matrix(translation, rotation, inverse) ==
    LET R == IF inverse THEN Transpose3(RotationMatrix(rotation)) ELSE RotationMatrix(rotation)
        neg == <<0 - translation[1], 0 - translation[2], 0 - translation[3]>>
        t == IF inverse THEN <<Dot(R, neg, 1), Dot(R, neg, 2), Dot(R, neg, 3)>> ELSE translation
    IN << <<R[1][1], R[1][2], R[1][3], t[1]>>,
          <<R[2][1], R[2][2], R[2][3], t[2]>>,
          <<R[3][1], R[3][2], R[3][3], t[3]>>,
          <<0, 0, 0, 1>> >>

\* entry (i, j) of the product of two 4x4 matrices
MatMulEntry(A, B, i, j) ==
    A[i][1] * B[1][j] + A[i][2] * B[2][j] + A[i][3] * B[3][j] + A[i][4] * B[4][j]

MatMulRow(A, B, i) ==
    <<MatMulEntry(A, B, i, 1), MatMulEntry(A, B, i, 2), MatMulEntry(A, B, i, 3), MatMulEntry(A, B, i, 4)>>

\* np.dot of two 4x4 matrices
MatMul(A, B) == <<MatMulRow(A, B, 1), MatMulRow(A, B, 2), MatMulRow(A, B, 3), MatMulRow(A, B, 4)>>

\* reduce(np.dot, ms)
RECURSIVE ReduceDot(_)
ReduceDot(ms) ==
    IF Len(ms) = 1 THEN ms[1]
    ELSE MatMul(ReduceDot(SubSeq(ms, 1, Len(ms) - 1)), ms[Len(ms)])

\* The point matrix cls.from_file decodes from a frame's file.
FileCloud(c, filename) ==
    LET d == nbr_dims(c)
        ps == CASE filename = "a" -> << <<3, 0, 1>>, <<0, 1, 2>> >>
                [] filename = "b" -> << <<1, 1, 0>>, <<0 - 4, 2, 0>>, <<0, 0, 7>> >>
                [] filename = "c" -> << >>
    IN Matrix(d, [k \in 1..Len(ps) |-> SampleCol(d, ps[k])])

Pose(translation, rotation) == [translation |-> translation, rotation |-> rotation]

\* the ego pose recorded with each file
FilePose(filename) ==
    CASE filename = "a" -> Pose(<<0, 0, 0>>, 0)
      [] filename = "b" -> Pose(<<2, 0, 0>>, 1)
      [] filename = "c" -> Pose(<<0, 0 - 1, 0>>, 2)

FileNames == {"a", "b", "c"}

Calibrations == {Pose(<<0, 0, 0>>, 0), Pose(<<1, 0, 1>>, 3)}

\* A sample_data record.  Tokens are 1..n; prev = 0 stands for the empty string.
SampleData(filename, timestamp, pose, cs, prev) ==
    [filename |-> filename, timestamp |-> timestamp, ego_pose |-> pose,
     calibrated_sensor |-> cs, prev |-> prev]

\* The source channel's chain for the files fs: frame 1 is the current one, each
\* frame's prev is the next token, the last frame's is empty; timestamps decrease
\* along prev.
Chain(fs, cs) ==
    [i \in 1..Len(fs) |->
        SampleData(fs[i], 1000000 - 50000 * (i - 1), FilePose(fs[i]), cs,
                   IF i = Len(fs) THEN 0 ELSE i + 1)]

\* The reference channel's current record when it is another channel: taken
\* before or after the source channel's current frame.
RefRecords ==
    {SampleData("r", ts, Pose(<<1, 1, 0>>, 0), Pose(<<0, 1, 0>>, 1), 0) : ts \in {925000, 1020000}}

Chains == UNION {{Chain(fs, cs) : cs \in Calibrations} :
                    fs \in UNION {[1..n -> FileNames] : n \in 1..MaxChain}}

\* A call's arguments: the catalog (sample_data by token), the tokens
\* sample_rec["data"] gives for chan and ref_chan, num_sweeps and min_distance.
\* ref_chan is chan itself, or (token 0) another channel, whose record is then
\* the last of the catalog.
Calls ==
    {[sample_data |-> sd, chan |-> 1, ref_chan |-> rc, num_sweeps |-> k, min_distance |-> md] :
        sd \in Chains, rc \in {1}, k \in 0..MaxSweeps, md \in Radii}
    \cup
    {[sample_data |-> sd \o <<r>>, chan |-> 1, ref_chan |-> rc, num_sweeps |-> k, min_distance |-> md] :
        sd \in Chains, r \in RefRecords, rc \in {0}, k \in 0..MaxSweeps, md \in Radii}

NoCall == [sample_data |-> <<>>, chan |-> 0, ref_chan |-> 0, num_sweeps |-> 0, min_distance |-> 0]

\* lyftd.get("sample_data", token)
Get(c, token) == c.sample_data[token]

\* token of the reference record
RefToken(c) == IF c.ref_chan = 0 THEN Len(c.sample_data) ELSE c.ref_chan

\* length of the source channel's chain
ChainLen(c) == IF c.ref_chan = 0 THEN Len(c.sample_data) - 1 ELSE Len(c.sample_data)

\* lines 91-97: the two transforms of the reference frame
ref_from_car(c) ==
    LET cs == Get(c, RefToken(c)).calibrated_sensor
    IN transform_matrix(cs.translation, cs.rotation, TRUE)

car_from_global(c) ==
    LET pose == Get(c, RefToken(c)).ego_pose
    IN transform_matrix(pose.translation, pose.rotation, TRUE)

\* lines 106-119: the transform of frame rec into the reference frame
trans_matrix(c, rec) ==
    LET global_from_car == transform_matrix(rec.ego_pose.translation, rec.ego_pose.rotation, FALSE)
        car_from_current == transform_matrix(rec.calibrated_sensor.translation,
                                             rec.calibrated_sensor.rotation, FALSE)
    IN ReduceDot(<<ref_from_car(c), car_from_global(c), global_from_car, car_from_current>>)

\* the frame's cloud pruned before it is mapped into the reference frame: a
\* variant C15 must tell apart
current_pc_PruneFirstMutant(c, k, rec) ==
    transform(remove_close(FileCloud(k, rec.filename), c.min_distance), trans_matrix(c, rec))

\* lines 104-123: the frame's cloud, loaded, mapped into the reference frame and pruned
current_pc(c, k, rec) ==
    remove_close(transform(FileCloud(k, rec.filename), trans_matrix(c, rec)), c.min_distance)

\* time_lag with the operands swapped: a variant C3 must tell apart
time_lag_SwappedMutant(c, rec) == rec.timestamp - Get(c, RefToken(c)).timestamp

\* line 124, in microseconds: the factor 1e-6 scales both timestamps alike
time_lag(c, rec) == Get(c, RefToken(c)).timestamp - rec.timestamp

\* times sized by the frame's points before remove_close: a variant C2 must tell apart
times_BeforePruneMutant(c, k, rec) ==
    [j \in 1..nbr_points(FileCloud(k, rec.filename)) |-> time_lag(c, rec)]

\* line 125: time_lag * np.ones((1, current_pc.nbr_points()))
times(c, k, rec) == [j \in 1..nbr_points(current_pc(c, k, rec)) |-> time_lag(c, rec)]

\* np.hstack of two point matrices; numpy refuses unequal row counts
HStack(a, b) == Matrix(a.nrows, a.cols \o b.cols)

\* a loop of num_sweeps + 1 iterations: a variant C1 must tell apart
InRange_OneMoreMutant(i, n) == i <= n

\* line 102: for _ in range(num_sweeps)
InRange(i, n) == i < n

\* line 132: current_sd_rec["prev"] == ""
NoPrev(rec) == rec.prev = 0

----------------------------------------------------------------------------
(* RadarPointCloud.from_file: the header and the decoding of the binary body *)

\* A decoded scalar: <<"num", n>> for the integer n (as a float or an integer),
\* <<"nan">>, <<"inf", sign>>, or <<"other", ...>> for a float that is no small integer.
Num(n) == <<"num", n>>
NaN == <<"nan">>

\* np.isnan
IsNaN(v) == v[1] = "nan"

\* `p in states` for a list of integers
Member(v, states) == v[1] = "num" /\ v[2] \in states

RECURSIVE Pow2(_)
Pow2(n) == IF n = 0 THEN 1 ELSE 2 * Pow2(n - 1)

\* the finite float (-1)^sign * M * 2^(-shift)
FloatValue(sign, M, shift) ==
    LET sgn == IF sign = 1 THEN 0 - 1 ELSE 1
    IN IF M = 0 THEN Num(0)
       ELSE IF shift >= 0 /\ shift <= 24 /\ M % Pow2(shift) = 0 THEN Num(sgn * (M \div Pow2(shift)))
       ELSE IF shift < 0 /\ shift >= 0 - 6 THEN Num(sgn * M * Pow2(0 - shift))
       ELSE <<"other", sign, M, shift>>

\* IEEE binary16 from its two bytes, least significant first
Half(b) ==
    LET sign == b[2] \div 128
        exp == (b[2] % 128) \div 4
        mant == (b[2] % 4) * 256 + b[1]
    IN IF exp = 31 THEN (IF mant = 0 THEN <<"inf", sign>> ELSE NaN)
       ELSE IF exp = 0 THEN FloatValue(sign, mant, 24)
       ELSE FloatValue(sign, 1024 + mant, 25 - exp)

\* IEEE binary32 from its four bytes, least significant first
Single(b) ==
    LET sign == b[4] \div 128
        exp == (b[4] % 128) * 2 + b[3] \div 128
        mant == (b[3] % 128) * 65536 + b[2] * 256 + b[1]
    IN IF exp = 255 THEN (IF mant = 0 THEN <<"inf", sign>> ELSE NaN)
       ELSE IF exp = 0 THEN FloatValue(sign, mant, 149)
       ELSE FloatValue(sign, 8388608 + mant, 150 - exp)

\* struct.unpack(code, bytes)[0], native (little-endian) byte order, for the
\* codes whose values fit the model's integers
Unpack(code, b) ==
    CASE code = "e" -> Half(b)
      [] code = "f" -> Single(b)
      [] code = "b" -> Num(IF b[1] < 128 THEN b[1] ELSE b[1] - 256)
      [] code = "B" -> Num(b[1])
      [] code = "h" -> Num(IF b[2] < 128 THEN b[1] + 256 * b[2] ELSE b[1] + 256 * b[2] - 65536)
      [] code = "H" -> Num(b[1] + 256 * b[2])

\* lines 424-428: unpacking_lut, as the set of its (type, size, code) entries
unpacking_lut ==
    { <<"F", 2, "e">>, <<"F", 4, "f">>, <<"F", 8, "d">>,
      <<"I", 1, "b">>, <<"I", 2, "h">>, <<"I", 4, "i">>, <<"I", 8, "q">>,
      <<"U", 1, "B">>, <<"U", 2, "H">>, <<"U", 4, "I">>, <<"U", 8, "Q">> }

\* unpacking_lut[t][int(s)] exists
InLut(t, sz) == \E e \in unpacking_lut : e[1] = t /\ e[2] = sz

LutCode(t, sz) == (CHOOSE e \in unpacking_lut : e[1] = t /\ e[2] = sz)[3]

\* line 429: one code per (type, size) pair; zip stops at the shorter list
types_str(h) ==
    [p \in 1..Min(Len(h.types), Len(h.sizes)) |-> LutCode(h.types[p], h.sizes[p])]

LutComplete(h) ==
    \A p \in 1..Min(Len(h.types), Len(h.sizes)) : InLut(h.types[p], h.sizes[p])

\* line 417
feature_count(h) == Len(h.types)

\* line 419: the COUNT entries c with c != c
CountsRefused(h) == SelectSeq(h.counts, LAMBDA c : c # c)

\* lines 409-421: the assertion that fails first, or "none"
HeaderAssert(h) ==
    CASE ~h.comment -> "First line must be comment"
      [] ~h.version -> "Second line must be VERSION"
      [] ~(h.width > 0) -> "assert width > 0"
      [] ~(Len(CountsRefused(h)) = 0) -> "Error: COUNT not supported!"
      [] ~(h.height = 1) -> "Error: height != 0 not supported!"
      [] ~(h.data = "binary") -> "assert data == binary"
      [] OTHER -> "none"

\* lines 437-443: the fields of one point from byte offset off on.  The result is
\* [ok, point, offset]; ok is FALSE when `assert end_p < len(data_binary)` fails.
RECURSIVE DecodeFields(_, _, _, _, _)
DecodeFields(h, data_binary, p, off, point) ==
    IF p > feature_count(h) THEN [ok |-> TRUE, point |-> point, offset |-> off]
    ELSE LET start_p == off
             end_p == start_p + h.sizes[p]
         IN IF ~(end_p < Len(data_binary))
              THEN [ok |-> FALSE, point |-> point, offset |-> off]
              ELSE DecodeFields(h, data_binary, p + 1, end_p,
                                Append(point, Unpack(types_str(h)[p],
                                                     SubSeq(data_binary, start_p + 1, end_p))))

DecodePoint(h, data_binary, off) == DecodeFields(h, data_binary, 1, off, <<>>)

\* np.array(points).transpose(): one row per field, one column per point
TransposeList(h, pts) ==
    Matrix(feature_count(h),
           [k \in 1..Len(pts) |-> [r \in 0..(feature_count(h) - 1) |-> pts[k][r + 1]]])

\* lines 289-291: the class-level allow-sets
invalid_states == {0}
dynprop_states == 0..6
ambig_states == {3}

\* lines 455-457: an argument is <<>> (None) or <<states>>
Effective(arg, default) == IF arg = <<>> THEN default ELSE arg[1]

\* a filter that reads the row after the one named: a variant C7 must tell apart
FilterBy_NextRowMutant(m, row, states) ==
    Matrix(m.nrows,
           MaskSelect(m.cols, [k \in 1..Len(m.cols) |-> Member(m.cols[k][row + 1], states)]))

\* valid = [p in states for p in points[row, :]]; points = points[:, valid]
FilterBy(m, row, states) ==
    Matrix(m.nrows,
           MaskSelect(m.cols, [k \in 1..Len(m.cols) |-> Member(m.cols[k][row], states)]))

\* lines 459-469: the three filters in the source's order; row -4 counts from the end
FilterStates(m, a) ==
    LET by_invalid == FilterBy(m, m.nrows - 4, Effective(a.invalid_states, invalid_states))
        by_dynprop == FilterBy(by_invalid, 3, Effective(a.dynprop_states, dynprop_states))
    IN FilterBy(by_dynprop, 11, Effective(a.ambig_states, ambig_states))

----------------------------------------------------------------------------
(* Radar files of the model *)

F32One == <<0, 0, 128, 63>>
F32Two == <<0, 0, 0, 64>>
F32Half == <<0, 0, 0, 63>>
F32NaN == <<0, 0, 192, 127>>

\* The 43 bytes of a point in the documented layout
\* (x y z dyn_prop id rcs vx vy vx_comp vy_comp is_quality_valid ambig_state
\*  x_rms y_rms invalid_state pdh0 vx_rms vy_rms), and one byte more for a
\* header that declares a 19th field.
PointBytes(x, rcs, dyn_prop, ambig_state, invalid_state) ==
    x \o F32Two \o F32Half \o <<dyn_prop>> \o <<7, 1>> \o rcs
      \o F32One \o F32Half \o F32One \o F32Two
      \o <<1, ambig_state, 19, 20, invalid_state, 1, 255, 16>> \o <<5>>

SamplePoints ==
    { PointBytes(F32One, F32Half, 1, 3, 0),
      PointBytes(F32Two, F32NaN, 0, 3, 0),
      PointBytes(F32Two, F32One, 2, 3, 4),
      PointBytes(F32One, F32Two, 7, 3, 0),
      PointBytes(F32Half, F32One, 6, 1, 0),
      PointBytes(F32Two, F32Two, 7, 1, 4) }

Header(sizes, types, counts, width) ==
    [comment |-> TRUE, version |-> TRUE, sizes |-> sizes, types |-> types,
     counts |-> counts, width |-> width, height |-> 1, data |-> "binary"]

DocSizes == <<4, 4, 4, 1, 2, 4, 4, 4, 4, 4, 1, 1, 1, 1, 1, 1, 1, 1>>
DocTypes == <<"F", "F", "F", "I", "I", "F", "F", "F", "F", "F", "I", "I", "I", "I", "I", "I", "I", "I">>
DocCounts == [p \in 1..18 |-> "1"]

\* the documented header for w points, a header that declares one field more, and
\* headers that differ from the documented one in one line
Headers(w) ==
    LET doc == Header(DocSizes, DocTypes, DocCounts, w)
    IN { doc,
         [doc EXCEPT !.counts = [DocCounts EXCEPT ![4] = "2"]],
         [doc EXCEPT !.sizes = DocSizes \o <<1>>, !.types = DocTypes \o <<"U">>,
                     !.counts = DocCounts \o <<"1">>],
         [doc EXCEPT !.types = [DocTypes EXCEPT ![4] = "F"]],
         [doc EXCEPT !.height = 2],
         [doc EXCEPT !.width = 0],
         [doc EXCEPT !.data = "ascii"],
         [doc EXCEPT !.comment = FALSE],
         [doc EXCEPT !.version = FALSE] }

RECURSIVE Sum(_)
Sum(q) == IF q = <<>> THEN 0 ELSE Head(q) + Sum(Tail(q))

\* bytes of one point row as the header declares it
RowBytes(h) == Sum(h.sizes)

RECURSIVE Concat(_)
Concat(q) == IF q = <<>> THEN <<>> ELSE Head(q) \o Concat(Tail(q))

\* The body of w sample points cut to the header's row length, then delta bytes
\* longer (a trailing zero byte) or shorter than w rows.
Body(h, pts, delta) ==
    LET rows == Concat([k \in 1..Len(pts) |-> SubSeq(pts[k], 1, RowBytes(h))])
    IN IF delta > 0 THEN rows \o [k \in 1..delta |-> 0]
       ELSE SubSeq(rows, 1, Len(rows) + delta)

Files ==
    UNION { { [header |-> h, data_binary |-> Body(h, pts, delta)] :
                h \in Headers(Len(pts)), delta \in {0 - 1, 0, 1} } :
            pts \in UNION {[1..w -> SamplePoints] : w \in 1..MaxWidth} }

NoFile == [header |-> Header(<<>>, <<>>, <<>>, 0), data_binary |-> <<>>]

Args(i, d, a) == [invalid_states |-> i, dynprop_states |-> d, ambig_states |-> a]

NoArgs == Args(<<>>, <<>>, <<>>)

\* no argument supplied, or allow-sets wider than the defaults
ArgChoices == {NoArgs, Args(<<{0, 4}>>, <<>>, <<{1, 3}>>), Args(<<>>, <<0..7>>, <<>>)}

----------------------------------------------------------------------------
(* Box: float values, quaternions, the constructor and the operations *)

\* A float is Num(n), NaN or an infinity <<"inf", sign>> (sign 1 is negative).
Inf == <<"inf", 0>>

IsNum(v) == v[1] = "num"

IsInf(v) == v[1] = "inf"

SignOf(v) == IF IsNum(v) THEN (IF v[2] < 0 THEN 1 ELSE 0) ELSE v[2]

\* IEEE addition: NaN is absorbing, inf - inf is NaN
FAdd(a, b) ==
    IF IsNaN(a) \/ IsNaN(b) THEN NaN
    ELSE IF IsNum(a) /\ IsNum(b) THEN Num(a[2] + b[2])
    ELSE IF IsInf(a) /\ IsInf(b) THEN (IF a[2] = b[2] THEN a ELSE NaN)
    ELSE IF IsInf(a) THEN a
    ELSE b

\* IEEE multiplication: NaN is absorbing, 0 * inf is NaN
FMul(a, b) ==
    IF IsNaN(a) \/ IsNaN(b) THEN NaN
    ELSE IF IsNum(a) /\ IsNum(b) THEN Num(a[2] * b[2])
    ELSE IF (IsNum(a) /\ a[2] = 0) \/ (IsNum(b) /\ b[2] = 0) THEN NaN
    ELSE <<"inf", (SignOf(a) + SignOf(b)) % 2>>

\* np.any(np.isnan(v)) and np.all(np.isnan(v)) of a vector
AnyNaN(v) == \E i \in 1..Len(v) : IsNaN(v[i])

AllNaN(v) == \A i \in 1..Len(v) : IsNaN(v[i])

\* a == b of two floats: NaN equals nothing
FEq(a, b) == ~IsNaN(a) /\ ~IsNaN(b) /\ a = b

\* np.isclose with the defaults rtol = 1e-5, atol = 1e-8, equal_nan = False:
\* |a - b| <= atol + rtol * |b| for finite values (both sides times 1e8),
\* equality for infinities, False for a NaN
IsClose(a, b) ==
    IF IsNaN(a) \/ IsNaN(b) THEN FALSE
    ELSE IF IsNum(a) /\ IsNum(b) THEN 100000000 * Abs(a[2] - b[2]) <= 1 + 1000 * Abs(b[2])
    ELSE a = b

\* np.allclose of two vectors of the same length
AllClose(u, v) == \A i \in 1..Len(u) : IsClose(u[i], v[i])

\* pyquaternion.Quaternion(w, x, y, z)
Quaternion(w, x, y, z) == [type |-> "Quaternion", elements |-> <<w, x, y, z>>]

\* Quaternion.__mul__: the Hamilton product
QMul(p, q) ==
    LET a == p.elements
        b == q.elements
    IN Quaternion(a[1] * b[1] - a[2] * b[2] - a[3] * b[3] - a[4] * b[4],
                  a[1] * b[2] + a[2] * b[1] + a[3] * b[4] - a[4] * b[3],
                  a[1] * b[3] - a[2] * b[4] + a[3] * b[1] + a[4] * b[2],
                  a[1] * b[4] + a[2] * b[3] - a[3] * b[2] + a[4] * b[1])

\* Quaternion.rotation_matrix of a unit quaternion
rotation_matrix(q) ==
    LET w == q.elements[1]
        x == q.elements[2]
        y == q.elements[3]
        z == q.elements[4]
    IN << <<w * w + x * x - y * y - z * z, 2 * (x * y - w * z), 2 * (x * z + w * y)>>,
          <<2 * (x * y + w * z), w * w - x * x + y * y - z * z, 2 * (y * z - w * x)>>,
          <<2 * (x * z - w * y), 2 * (y * z + w * x), w * w - x * x - y * y + z * z>> >>

\* np.dot(R, v) of a 3x3 matrix of numbers and a vector of 3 floats
FDotRow(R, v, i) ==
    FAdd(FAdd(FMul(Num(R[i][1]), v[1]), FMul(Num(R[i][2]), v[2])), FMul(Num(R[i][3]), v[3]))

FDot(R, v) == <<FDotRow(R, v, 1), FDotRow(R, v, 2), FDotRow(R, v, 3)>>

NoBox == [center |-> <<>>, wlh |-> <<>>, orientation |-> Quaternion(0, 0, 0, 0),
          label |-> NaN, score |-> NaN, velocity |-> <<>>, name |-> "", token |-> ""]

\* Box.__init__, lines 500-513: the exception the checks raise, or "none"
BoxInitError(a) ==
    IF AnyNaN(a.center) THEN "ValueError"
    ELSE IF AnyNaN(a.size) THEN "ValueError"
    ELSE IF Len(a.center) # 3 THEN "ValueError"
    ELSE IF Len(a.size) # 3 THEN "ValueError"
    ELSE IF a.orientation.type # "Quaternion" THEN "TypeError"
    ELSE "none"

\* Box.__init__, lines 515-522: the fields of the new box
BoxInit(a) ==
    [center |-> a.center, wlh |-> a.size, orientation |-> a.orientation,
     label |-> IF ~IsNaN(a.label) THEN Num(a.label[2]) ELSE a.label,
     score |-> IF ~IsNaN(a.score) THEN Num(a.score[2]) ELSE a.score,
     velocity |-> a.velocity, name |-> a.name, token |-> a.token]

\* Box.__eq__
BoxEq(self, other) ==
    LET center == AllClose(self.center, other.center)
        wlh == AllClose(self.wlh, other.wlh)
        orientation == AllClose([i \in 1..4 |-> Num(self.orientation.elements[i])],
                                [i \in 1..4 |-> Num(other.orientation.elements[i])])
        label == FEq(self.label, other.label) \/ (IsNaN(self.label) /\ IsNaN(other.label))
        score == FEq(self.score, other.score) \/ (IsNaN(self.score) /\ IsNaN(other.score))
        vel == AllClose(self.velocity, other.velocity)
                  \/ (AllNaN(self.velocity) /\ AllNaN(other.velocity))
    IN center /\ wlh /\ orientation /\ label /\ score /\ vel

\* Box.copy: copy.deepcopy(self)
BoxCopy(self) == self

\* Box.translate: self.center += x
box_translate(self, x) ==
    [self EXCEPT !.center = [i \in 1..3 |-> FAdd(self.center[i], Num(x[i]))]]

\* rotate_around_origin leaving the center alone: a variant C11 must tell apart
rotate_around_origin_KeepCenterMutant(self, quaternion) ==
    [self EXCEPT !.orientation = QMul(quaternion, self.orientation),
                 !.velocity = FDot(rotation_matrix(quaternion), self.velocity)]

\* Box.rotate_around_origin
rotate_around_origin(self, quaternion) ==
    [self EXCEPT !.center = FDot(rotation_matrix(quaternion), self.center),
                 !.orientation = QMul(quaternion, self.orientation),
                 !.velocity = FDot(rotation_matrix(quaternion), self.velocity)]

\* rotate_around_box_center rotating the center too: a variant C12 must tell apart
rotate_around_box_center_CenterMutant(self, quaternion) ==
    [self EXCEPT !.center = FDot(rotation_matrix(quaternion), self.center),
                 !.orientation = QMul(quaternion, self.orientation),
                 !.velocity = FDot(rotation_matrix(quaternion), self.velocity)]

\* Box.rotate_around_box_center
rotate_around_box_center(self, quaternion) ==
    [self EXCEPT !.orientation = QMul(quaternion, self.orientation),
                 !.velocity = FDot(rotation_matrix(quaternion), self.velocity)]

(* the inputs of the Box part *)

\* Float vectors from integers
Floats(v) == [i \in 1..Len(v) |-> Num(v[i])]

\* center arguments: the origin, a point on the z axis, a point off the axes, and
\* vectors with a NaN, with an infinity and with two components
BoxCenters ==
    {Floats(<<0, 0, 0>>), Floats(<<0, 0, 5>>), Floats(<<1, 2, 0>>),
     <<NaN, Num(0), Num(0)>>, <<Inf, Num(0), Num(0)>>, Floats(<<1, 2>>)}

BoxSizes == {Floats(<<1, 2, 3>>), <<Num(1), NaN, Num(3)>>, Floats(<<1, 2>>)}

\* orientation arguments: two unit quaternions, a quaternion of norm 2 and a
\* plain 4-tuple
BoxOrientations ==
    {Quaternion(1, 0, 0, 0), Quaternion(0, 0, 0, 1), Quaternion(2, 0, 0, 0),
     [type |-> "tuple", elements |-> <<1, 0, 0, 0>>]}

\* label and score: both left at their default NaN, or both given
BoxLabelScores == {<<NaN, NaN>>, <<Num(1), Num(1)>>}

\* velocity: the default, a known velocity, a velocity with one unknown component
BoxVelocities == {<<NaN, NaN, NaN>>, Floats(<<1, 0, 0>>), <<Num(1), NaN, Num(0)>>}

BoxArgs ==
    {[center |-> c, size |-> s, orientation |-> o, label |-> ls[1], score |-> ls[2],
      velocity |-> v, name |-> "car", token |-> "t"] :
        c \in BoxCenters, s \in BoxSizes, o \in BoxOrientations,
        ls \in BoxLabelScores, v \in BoxVelocities}

NoBoxArgs ==
    [center |-> <<>>, size |-> <<>>, orientation |-> Quaternion(0, 0, 0, 0),
     label |-> NaN, score |-> NaN, velocity |-> <<>>, name |-> "", token |-> ""]

\* rotations handed to the two rotate methods: the identity and the half turns
\* about z and about x, the unit quaternions 1, k and i
BoxRotations == {Quaternion(1, 0, 0, 0), Quaternion(0, 0, 0, 1), Quaternion(0, 1, 0, 0)}

BoxTranslations == {<<1, 0, 0 - 5>>}

----------------------------------------------------------------------------
(* A session on one point cloud: construction, then mutator calls *)

OpsIdle ==
    /\ nops = 0
    /\ lastOp = "none"
    /\ lastArg = <<>>
    /\ before = None
    /\ base = None

SweepIdle ==
    /\ call = NoCall
    /\ current_sd_rec = 0
    /\ sweep = 0
    /\ all_times = <<>>
    /\ loaded = <<>>

RadarIdle ==
    /\ file = NoFile
    /\ args = NoArgs
    /\ offset = 0
    /\ point_list = <<>>
    /\ matrix = None

BoxIdle ==
    /\ box = NoBox
    /\ box_args = NoBoxArgs
    /\ box_prev = NoBox
    /\ box_base = NoBox
    /\ box_nops = 0
    /\ box_call = <<"none">>

InitOps ==
    /\ pc = "new"
    /\ cls \in Classes
    /\ points = None
    /\ err = "none"
    /\ OpsIdle
    /\ SweepIdle
    /\ RadarIdle
    /\ BoxIdle

\* a constructor that accepts extra rows: a variant C8 must tell apart
InitAccepts_AtLeastMutant(c, m) == m.nrows >= nbr_dims(c)

\* PointCloud.__init__: the row count must be the format's
InitAccepts(c, m) == m.nrows = nbr_dims(c)

\* cls(points)
Construct ==
    /\ pc = "new"
    /\ \E m \in InputMatrices :
          /\ before' = m
          /\ IF InitAccepts(cls, m)
               THEN /\ points' = m
                    /\ pc' = "object"
                    /\ err' = "none"
               ELSE /\ points' = None
                    /\ pc' = "error"
                    /\ err' = "ValueError"
    /\ base' = points'
    /\ lastOp' = "__init__"
    /\ UNCHANGED <<cls, nops, lastArg, sweepVars, radarVars, boxVars>>

GeometricOps == {"translate", "rotate", "transform"}

Mutate(op, arg, result) ==
    /\ pc = "object"
    /\ nops < MaxOps
    /\ nops' = nops + 1
    /\ lastOp' = op
    /\ lastArg' = arg
    /\ before' = points
    /\ points' = result
    /\ base' = IF op \in GeometricOps THEN base ELSE result
    /\ UNCHANGED <<pc, cls, err, sweepVars, radarVars, boxVars>>

Subsample ==
    /\ pc = "object"
    /\ \E ratio \in Ratios :
      \E ind \in [1..SubsampleSize(points, ratio[1], ratio[2]) -> 0..(nbr_points(points) - 1)] :
        Mutate("subsample", ratio, subsample(points, ind))

RemoveClose == \E radius \in Radii : Mutate("remove_close", <<radius>>, remove_close(points, radius))

Translate == \E x \in Translations : Mutate("translate", x, translate(points, x))

Rotate == \E R \in Rotations : Mutate("rotate", R, rotate(points, R))

Transform == \E T \in Transforms : Mutate("transform", T, transform(points, T))

----------------------------------------------------------------------------
(* A call of cls.from_file_multisweep *)

InitSweep ==
    /\ pc = "multisweep"
    /\ cls \in Classes
    /\ points = None
    /\ err = "none"
    /\ OpsIdle
    /\ call \in Calls
    /\ current_sd_rec = 0
    /\ sweep = 0
    /\ all_times = <<>>
    /\ loaded = <<>>
    /\ RadarIdle
    /\ BoxIdle

\* lines 79-101: the empty aggregate and the source channel's current frame
SweepSetup ==
    /\ pc = "multisweep"
    /\ IF InitAccepts(cls, Zeros(nbr_dims(cls)))
         THEN /\ points' = Zeros(nbr_dims(cls))
              /\ pc' = "loop"
              /\ err' = "none"
         ELSE /\ points' = None
              /\ pc' = "error"
              /\ err' = "ValueError"
    /\ all_times' = <<>>
    /\ current_sd_rec' = call.chan
    /\ sweep' = 0
    /\ UNCHANGED <<cls, opsVars, call, loaded, radarVars, boxVars>>

\* lines 102-135: one iteration of the loop
SweepIteration ==
    /\ pc = "loop"
    /\ InRange(sweep, call.num_sweeps)
    /\ LET rec == Get(call, current_sd_rec)
       IN /\ loaded' = Append(loaded, current_sd_rec)
          /\ all_times' = all_times \o times(call, cls, rec)
          /\ points' = HStack(points, current_pc(call, cls, rec))
          /\ IF NoPrev(rec)
               THEN /\ pc' = "returned"
                    /\ UNCHANGED <<current_sd_rec, sweep>>
               ELSE /\ current_sd_rec' = rec.prev
                    /\ sweep' = sweep + 1
                    /\ pc' = "loop"
    /\ UNCHANGED <<cls, err, opsVars, call, radarVars, boxVars>>

\* line 137, reached when range(num_sweeps) is exhausted
SweepReturn ==
    /\ pc = "loop"
    /\ ~InRange(sweep, call.num_sweeps)
    /\ pc' = "returned"
    /\ UNCHANGED <<cls, points, err, opsVars, sweepVars, radarVars, boxVars>>

----------------------------------------------------------------------------
(* A call of RadarPointCloud.from_file *)

InitRadar ==
    /\ pc = "from_file"
    /\ cls = "RadarPointCloud"
    /\ points = None
    /\ err = "none"
    /\ OpsIdle
    /\ SweepIdle
    /\ file \in Files
    /\ args \in ArgChoices
    /\ offset = 0
    /\ point_list = <<>>
    /\ matrix = None
    /\ BoxIdle

Raise(e) ==
    /\ pc' = "error"
    /\ err' = e

\* lines 408-433: the header checks and the lookup of the unpack codes
RadarHeader ==
    /\ pc = "from_file"
    /\ IF HeaderAssert(file.header) # "none"
         THEN Raise(HeaderAssert(file.header))
         ELSE IF ~LutComplete(file.header)
                THEN Raise("KeyError")
                ELSE /\ pc' = "decode"
                     /\ err' = "none"
    /\ offset' = 0
    /\ point_list' = <<>>
    /\ UNCHANGED <<cls, points, opsVars, sweepVars, file, args, matrix, boxVars>>

\* lines 435-444: one iteration of the outer decode loop
RadarDecodePoint ==
    /\ pc = "decode"
    /\ Len(point_list) < file.header.width
    /\ LET d == DecodePoint(file.header, file.data_binary, offset)
       IN IF d.ok
            THEN /\ point_list' = Append(point_list, d.point)
                 /\ offset' = d.offset
                 /\ UNCHANGED <<pc, err>>
            ELSE /\ Raise("assert end_p < len(data_binary)")
                 /\ UNCHANGED <<point_list, offset>>
    /\ UNCHANGED <<cls, points, opsVars, sweepVars, file, args, matrix, boxVars>>

\* lines 446-452: the empty-cloud sentinel, else the conversion to a matrix
RadarNanCheck ==
    /\ pc = "decode"
    /\ Len(point_list) = file.header.width
    /\ IF \E p \in 1..Len(point_list[1]) : IsNaN(point_list[1][p])
         THEN /\ matrix' = matrix
              /\ IF InitAccepts(cls, Zeros(feature_count(file.header)))
                   THEN /\ points' = Zeros(feature_count(file.header))
                        /\ pc' = "radar_returned"
                        /\ err' = "none"
                   ELSE /\ points' = None
                        /\ Raise("ValueError")
         ELSE /\ matrix' = TransposeList(file.header, point_list)
              /\ pc' = "filter"
              /\ UNCHANGED <<points, err>>
    /\ UNCHANGED <<cls, opsVars, sweepVars, file, args, offset, point_list, boxVars>>

\* lines 454-471: the three filters and the construction of the result
RadarFilter ==
    /\ pc = "filter"
    /\ matrix' = FilterStates(matrix, args)
    /\ IF InitAccepts(cls, matrix')
         THEN /\ points' = matrix'
              /\ pc' = "radar_returned"
              /\ err' = "none"
         ELSE /\ points' = None
              /\ Raise("ValueError")
    /\ UNCHANGED <<cls, opsVars, sweepVars, file, args, offset, point_list, boxVars>>

----------------------------------------------------------------------------
(* A session on one Box: construction, then translate and rotate calls *)

InitBox ==
    /\ pc = "box_new"
    /\ cls = "Box"
    /\ points = None
    /\ err = "none"
    /\ OpsIdle
    /\ SweepIdle
    /\ RadarIdle
    /\ box = NoBox
    /\ box_args \in BoxArgs
    /\ box_prev = NoBox
    /\ box_base = NoBox
    /\ box_nops = 0
    /\ box_call = <<"none">>

\* Box(center, size, orientation, label, score, velocity, name, token)
BoxConstruct ==
    /\ pc = "box_new"
    /\ IF BoxInitError(box_args) = "none"
         THEN /\ box' = BoxInit(box_args)
              /\ pc' = "box"
              /\ err' = "none"
         ELSE /\ box' = NoBox
              /\ pc' = "error"
              /\ err' = BoxInitError(box_args)
    /\ box_base' = box'
    /\ box_call' = <<"__init__">>
    /\ UNCHANGED <<cls, points, opsVars, sweepVars, radarVars, box_args, box_prev, box_nops>>

\* a method of Box that updates the box in place and returns self
BoxMutate(op, arg, result) ==
    /\ pc = "box"
    /\ box_nops < MaxOps
    /\ box_nops' = box_nops + 1
    /\ box_call' = <<op, arg>>
    /\ box_prev' = box
    /\ box' = result
    /\ box_base' = IF op = "rotate_around_box_center" THEN box_base ELSE result
    /\ UNCHANGED <<pc, cls, points, err, opsVars, sweepVars, radarVars, box_args>>

BoxTranslate ==
    /\ pc = "box"
    /\ \E x \in BoxTranslations : BoxMutate("translate", x, box_translate(box, x))

BoxRotateAroundOrigin ==
    /\ pc = "box"
    /\ \E q \in BoxRotations :
          BoxMutate("rotate_around_origin", q, rotate_around_origin(box, q))

BoxRotateAroundBoxCenter ==
    /\ pc = "box"
    /\ \E q \in BoxRotations :
          BoxMutate("rotate_around_box_center", q, rotate_around_box_center(box, q))

----------------------------------------------------------------------------

Init == InitOps \/ InitSweep \/ InitRadar \/ InitBox

Next ==
    \/ Construct \/ Subsample \/ RemoveClose \/ Translate \/ Rotate \/ Transform
    \/ SweepSetup \/ SweepIteration \/ SweepReturn
    \/ RadarHeader \/ RadarDecodePoint \/ RadarNanCheck \/ RadarFilter
    \/ BoxConstruct \/ BoxTranslate \/ BoxRotateAroundOrigin \/ BoxRotateAroundBoxCenter

Spec == Init /\ [][Next]_vars

----------------------------------------------------------------------------
(* Properties of from_file_multisweep *)

Returned == pc = "returned"

\* the tokens of the first n frames of the chain that starts at token t
RECURSIVE ChainPrefix(_, _, _)
ChainPrefix(c, t, n) ==
    IF n = 0 \/ t = 0 THEN <<>>
    ELSE <<t>> \o ChainPrefix(c, Get(c, t).prev, n - 1)

\* C1: from_file_multisweep merges exactly min(num_sweeps, L) frames of a
\* prev-chain of length L: the source channel's current frame first, then one
\* frame per prev link, each decoded once and in chain order, and it stops as
\* soon as it has merged a frame whose prev is empty.
C1_MergesMinFrames ==
    /\ pc \in {"loop", "returned"} =>
          /\ loaded = ChainPrefix(call, call.chan, Len(loaded))
          /\ \A i, j \in 1..Len(loaded) : loaded[i] = loaded[j] => i = j
          /\ \A i \in 1..(Len(loaded) - 1) : Get(call, loaded[i]).prev # 0
    /\ pc = "loop" => Len(loaded) = sweep /\ sweep <= call.num_sweeps
    /\ Returned => Len(loaded) = Min(call.num_sweeps, ChainLen(call))

\* C1's case: a chain of three frames and more sweeps asked for than there are frames
C1_Witness ==
    /\ Returned
    /\ ChainLen(call) = 3
    /\ call.num_sweeps > 3
    /\ loaded = <<1, 2, 3>>

\* C2: after every loop iteration and in the returned pair, all_times has one
\* entry per point column of the aggregate cloud.
C2_TimesParallel ==
    pc \in {"loop", "returned"} => Len(all_times) = nbr_points(points)

\* number of points the files of the loaded frames hold
RECURSIVE RawCount(_)
RawCount(ts) ==
    IF ts = <<>> THEN 0
    ELSE nbr_points(FileCloud(cls, Get(call, Head(ts)).filename)) + RawCount(Tail(ts))

\* C2's case: several frames merged, remove_close dropped some points and kept others
C2_Witness ==
    /\ Returned
    /\ Len(loaded) >= 2
    /\ nbr_points(points) > 0
    /\ nbr_points(points) < RawCount(loaded)

\* What the frames ts contribute: for each frame, in order, one pair <<token,
\* reference timestamp - frame timestamp>> per point of the frame that survives.
RECURSIVE ExpectedOffsets(_)
ExpectedOffsets(ts) ==
    IF ts = <<>> THEN <<>>
    ELSE LET rec == Get(call, Head(ts))
             lag == Get(call, RefToken(call)).timestamp - rec.timestamp
         IN [j \in 1..nbr_points(current_pc(call, cls, rec)) |-> <<Head(ts), lag>>]
               \o ExpectedOffsets(Tail(ts))

\* C3: every surviving point of a merged frame gets the offset (reference
\* timestamp - frame timestamp), positive for a frame older than the reference;
\* when the source channel's current frame is the reference frame, that frame's
\* surviving points get offset 0.
C3_TimeOffsets ==
    pc \in {"loop", "returned"} =>
        LET expected == ExpectedOffsets(loaded)
        IN /\ Len(all_times) = Len(expected)
           /\ \A j \in 1..Len(expected) :
                 /\ all_times[j] = expected[j][2]
                 /\ Get(call, expected[j][1]).timestamp < Get(call, RefToken(call)).timestamp
                       => all_times[j] > 0
                 /\ expected[j][1] = RefToken(call) => all_times[j] = 0

\* C3's case: the reference frame is the source channel's current frame, it and an
\* older frame both contributed points
C3_Witness ==
    /\ Returned
    /\ call.ref_chan = call.chan
    /\ Len(loaded) >= 2
    /\ all_times # <<>>
    /\ all_times[1] = 0
    /\ all_times[Len(all_times)] > 0

----------------------------------------------------------------------------
(* Properties of RadarPointCloud.from_file *)

\* the call has ended, with a point cloud or with an exception
RadarDone == file # NoFile /\ pc \in {"radar_returned", "error"}

\* A header that honours every rule of the format: the comment and VERSION lines,
\* WIDTH > 0, every COUNT equal to 1, HEIGHT 1, DATA binary, known field encodings.
HeaderValid(h) ==
    /\ h.comment /\ h.version
    /\ h.width > 0
    /\ \A p \in 1..Len(h.counts) : h.counts[p] = "1"
    /\ h.height = 1
    /\ h.data = "binary"
    /\ Len(h.sizes) = Len(h.types)
    /\ \A p \in 1..Len(h.types) : InLut(h.types[p], h.sizes[p])

\* bytes the header implies: WIDTH rows of the summed field sizes
ImpliedBytes(h) == h.width * RowBytes(h)

\* field p of the first point of a file whose first row is complete
FirstPointField(f, p) ==
    LET before_p == Sum(SubSeq(f.header.sizes, 1, p - 1))
    IN Unpack(LutCode(f.header.types[p], f.header.sizes[p]),
              SubSeq(f.data_binary, before_p + 1, before_p + f.header.sizes[p]))

FirstPointHasNaN(f) ==
    /\ Len(f.data_binary) >= RowBytes(f.header)
    /\ \E p \in 1..Len(f.header.types) : IsNaN(FirstPointField(f, p))

\* C4: for a header-valid file, from_file fails with the truncated-payload error
\* exactly when the body is shorter than WIDTH x (sum of SIZE) bytes; a body of
\* exactly that length is decoded in full.
C4_TruncatedExactlyWhenShort ==
    (RadarDone /\ HeaderValid(file.header)) =>
        /\ (err = "assert end_p < len(data_binary)")
              <=> (Len(file.data_binary) < ImpliedBytes(file.header))
        /\ Len(file.data_binary) = ImpliedBytes(file.header)
              => Len(point_list) = file.header.width

\* C5: a header whose COUNT line holds an entry other than 1 is rejected: no
\* point cloud is returned.
C5_CountRejected ==
    (RadarDone /\ \E p \in 1..Len(file.header.counts) : file.header.counts[p] # "1") =>
        /\ pc = "error"
        /\ points = None

\* C6: a header-valid file whose first point holds a NaN yields, as a success, a
\* cloud of zero points with one row per declared field, whatever WIDTH and the
\* rest of the payload are.
C6_NaNSentinelSucceeds ==
    (RadarDone /\ HeaderValid(file.header) /\ FirstPointHasNaN(file)) =>
        /\ pc = "radar_returned"
        /\ err = "none"
        /\ nbr_points(points) = 0
        /\ points.nrows = feature_count(file.header)

\* C7: when the first point has no NaN, from_file returns exactly the decoded
\* points, in payload order, whose 4th-from-last row is in invalid_states, whose
\* row 3 is in dynprop_states and whose row 11 is in ambig_states (the argument,
\* or the class default when none is given): the intersection of the three
\* filters, the same in whatever order they are applied.
C7_FiltersIntersect ==
    (pc = "radar_returned" /\ ~(\E p \in 1..Len(point_list[1]) : IsNaN(point_list[1][p]))) =>
        LET all == TransposeList(file.header, point_list)
            inv == IF args.invalid_states = <<>> THEN {0} ELSE args.invalid_states[1]
            dyn == IF args.dynprop_states = <<>> THEN 0..6 ELSE args.dynprop_states[1]
            amb == IF args.ambig_states = <<>> THEN {3} ELSE args.ambig_states[1]
            Keep(c) == /\ Member(c[all.nrows - 4], inv)
                       /\ Member(c[3], dyn)
                       /\ Member(c[11], amb)
        IN /\ points.cols = SelectSeq(all.cols, Keep)
           /\ points = FilterBy(FilterBy(FilterBy(all, 11, amb), 3, dyn), all.nrows - 4, inv)
           /\ points = FilterBy(FilterBy(FilterBy(all, 3, dyn), all.nrows - 4, inv), 11, amb)

\* C7's case: allow-sets given by the caller, two points decoded, one of them kept
C7_Witness ==
    /\ pc = "radar_returned"
    /\ args.invalid_states # <<>>
    /\ Len(point_list) = 2
    /\ nbr_points(points) = 1
    /\ points.cols[1] = TransposeList(file.header, point_list).cols[2]

----------------------------------------------------------------------------
(* Properties of the point cloud and its mutators *)

WellFormed(m) == \A k \in 1..Len(m.cols) : DOMAIN m.cols[k] = 0..(m.nrows - 1)

\* C8: a point cloud has its format's row count (4 for lidar, 18 for radar): the
\* constructor rejects any other, and subsample, remove_close, translate, rotate,
\* transform, the multi-sweep aggregation and the radar decoder keep it.
C8_RowCount ==
    /\ pc \in {"object", "loop", "returned", "radar_returned"} =>
          /\ points.nrows = nbr_dims(cls)
          /\ WellFormed(points)
    /\ (lastOp = "__init__" /\ before.nrows # nbr_dims(cls)) =>
          /\ pc = "error"
          /\ err = "ValueError"
          /\ points = None
    /\ nbr_dims("LidarPointCloud") = 4
    /\ nbr_dims("RadarPointCloud") = 18

\* C8's case: an accepted cloud after a subsample and another mutator
C8_Witness ==
    /\ pc = "object"
    /\ nops >= 2
    /\ lastOp = "subsample"
    /\ nbr_points(points) > 0
    /\ points.nrows = 18

\* C9: remove_close(radius) removes exactly the points with |x| < radius and
\* |y| < radius; the points kept are those of before with |x| >= radius or
\* |y| >= radius, in their order and unchanged, whatever z and the other rows are.
C9_RemoveCloseSquare ==
    (pc = "object" /\ lastOp = "remove_close") =>
        LET radius == lastArg[1]
            Kept(c) == Abs(c[0]) >= radius \/ Abs(c[1]) >= radius
        IN /\ points.cols = SelectSeq(before.cols, Kept)
           /\ points.nrows = before.nrows

\* C9's case: a point on the edge of the square (|x| = radius, |y| < radius) is kept
\* while another point is removed
C9_Witness ==
    /\ pc = "object"
    /\ lastOp = "remove_close"
    /\ nbr_points(points) < nbr_points(before)
    /\ \E k \in 1..nbr_points(points) :
          /\ Abs(points.cols[k][0]) = lastArg[1]
          /\ Abs(points.cols[k][1]) < lastArg[1]

\* rows 3 and up of a matrix
UpperRows(m) == [k \in 1..Len(m.cols) |-> [r \in 3..(m.nrows - 1) |-> m.cols[k][r]]]

\* C10: translate, rotate and transform change rows 0-2 only: after any run of
\* them the rows with index >= 3 and the number of points are those before it.
C10_GeometricOpsKeepUpperRows ==
    pc = "object" =>
        /\ UpperRows(points) = UpperRows(base)
        /\ nbr_points(points) = nbr_points(base)
        /\ lastOp \in GeometricOps =>
              /\ UpperRows(points) = UpperRows(before)
              /\ nbr_points(points) = nbr_points(before)

\* C10's case: two geometric operations in a row, both of which moved the points
C10_Witness ==
    /\ pc = "object"
    /\ lastOp = "rotate"
    /\ nbr_points(points) > 0
    /\ before # base
    /\ points # before

----------------------------------------------------------------------------
(* Properties of the Box *)

Origin == Floats(<<0, 0, 0>>)

Finite(v) == \A i \in 1..Len(v) : IsNum(v[i])

\* the rotation of the unit quaternion q fixes the finite point c: q is 1 or -1,
\* or c is parallel to q's axis (the cross product of the two vanishes)
FixedBy(q, c) ==
    LET x == q.elements[2]
        y == q.elements[3]
        z == q.elements[4]
    IN \/ (x = 0 /\ y = 0 /\ z = 0)
       \/ /\ y * c[3][2] - z * c[2][2] = 0
          /\ z * c[1][2] - x * c[3][2] = 0
          /\ x * c[2][2] - y * c[1][2] = 0

\* C11 as stated: rotate_around_origin changes every center that is not the origin.
C11_OriginRotationChangesCenter ==
    (pc = "box" /\ box_call[1] = "rotate_around_origin" /\ box_prev.center # Origin) =>
        box.center # box_prev.center

\* C11, amended: rotate_around_origin changes a finite center exactly when the
\* rotation moves it: the center stays what it was when it is the origin, when q
\* is the identity rotation or when the center lies on q's axis, and differs from
\* the center before the call in every other case.
C11_OriginRotationMovesCenter ==
    (pc = "box" /\ box_call[1] = "rotate_around_origin" /\ Finite(box_prev.center)) =>
        /\ (box.center = box_prev.center) <=> FixedBy(box_call[2], box_prev.center)
        /\ box_prev.center = Origin => box.center = Origin

\* C11's case: a half turn about z moved a center that is off the z axis
C11_Witness ==
    /\ pc = "box"
    /\ box_call[1] = "rotate_around_origin"
    /\ box_call[2] = Quaternion(0, 0, 0, 1)
    /\ box_prev.center = Floats(<<1, 2, 0>>)
    /\ box.center = Floats(<<0 - 1, 0 - 2, 0>>)

\* C12: rotate_around_box_center leaves the center and the size alone: after any
\* run of rotate_around_box_center calls the center and wlh (and label, score,
\* name, token) are those before the run; only orientation and velocity change.
C12_BoxCenterRotationKeepsCenter ==
    pc = "box" =>
        LET Kept(b) == <<b.center, b.wlh, b.label, b.score, b.name, b.token>>
        IN /\ Kept(box) = Kept(box_base)
           /\ box_call[1] = "rotate_around_box_center" => Kept(box) = Kept(box_prev)

\* C12's case: two rotate_around_box_center calls in a row, each of which turned
\* the box, on a box whose center is not the origin
C12_Witness ==
    /\ pc = "box"
    /\ box_call[1] = "rotate_around_box_center"
    /\ box_nops >= 2
    /\ box_prev.orientation # box_base.orientation
    /\ box.orientation # box_prev.orientation
    /\ box.center = Floats(<<1, 2, 0>>)
    /\ box.velocity # box_base.velocity

\* the squared norm of a quaternion
Norm2(q) ==
    q.elements[1] * q.elements[1] + q.elements[2] * q.elements[2]
        + q.elements[3] * q.elements[3] + q.elements[4] * q.elements[4]

\* what the constructor's arguments must be: 3 finite center components, 3 finite
\* size components, a unit quaternion
BoxArgsValid(a) ==
    /\ Len(a.center) = 3 /\ Finite(a.center)
    /\ Len(a.size) = 3 /\ Finite(a.size)
    /\ a.orientation.type = "Quaternion" /\ Norm2(a.orientation) = 1

\* C13: the constructor rejects, creating no Box, a center or size with a NaN or
\* other non-finite component or without exactly 3 components, and an orientation
\* that is not a unit quaternion; every constructed Box has 3 finite center
\* components, 3 finite size components and a unit-quaternion orientation.
C13_ConstructionRejectsInvalid ==
    /\ (box_call[1] = "__init__" /\ ~BoxArgsValid(box_args)) =>
          /\ pc = "error"
          /\ err \in {"ValueError", "TypeError"}
          /\ box = NoBox
    /\ (pc = "box" /\ box_call[1] = "__init__") =>
          /\ Len(box.center) = 3 /\ Finite(box.center)
          /\ Len(box.wlh) = 3 /\ Finite(box.wlh)
          /\ box.orientation.type = "Quaternion" /\ Norm2(box.orientation) = 1

\* C14: equality is reflexive over every box the constructor accepts, also after
\* translate, rotate_around_origin and rotate_around_box_center: b == b and
\* b == b.copy().
C14_EqualityReflexive ==
    pc = "box" =>
        /\ BoxEq(box, box)
        /\ BoxEq(box, BoxCopy(box))

----------------------------------------------------------------------------
(* The proximity filter of from_file_multisweep *)

\* C15: the proximity filter is applied to each frame after the frame is mapped
\* into the reference frame and before it is merged: at every loop iteration and
\* at return no point of the aggregate has |x| < min_distance and
\* |y| < min_distance in reference-frame coordinates.
C15_AggregateClearOfOrigin ==
    pc \in {"loop", "returned"} =>
        \A k \in 1..nbr_points(points) :
            ~(Abs(points.cols[k][0]) < call.min_distance
                /\ Abs(points.cols[k][1]) < call.min_distance)

\* C15's case: a returned aggregate that holds points of a frame for which pruning
\* after the transform and pruning before it keep different points
C15_Witness ==
    /\ pc = "returned"
    /\ nbr_points(points) > 0
    /\ \E i \in 1..Len(loaded) :
          LET rec == Get(call, loaded[i])
              raw == FileCloud(cls, rec.filename)
              T == trans_matrix(call, rec)
          IN /\ nbr_points(current_pc(call, cls, rec)) > 0
             /\ nbr_points(current_pc(call, cls, rec))
                   # nbr_points(remove_close(raw, call.min_distance))

=============================================================================
